---------------------------- MODULE Spec2Model ----------------------------
(***************************************************************************)
(* A model of the ts-postgres client: the frame reassembly and dispatch    *)
(* engine of src/src/client.ts (the socket 'data' handler and              *)
(* Client.receive) and the result pipeline of src/src/result.ts            *)
(* (makeResult and ResultIterator).                                        *)
(*                                                                         *)
(* Buffers are sequences of bytes (0..255).  The code's offsets are        *)
(* 0-based; a buffer position p of the code is element p + 1 here.         *)
(* Strings are sequences of character codes.                               *)
(***************************************************************************)
EXTENDS Integers, Sequences, FiniteSets, TLC

VARIABLES
    client,     \* the fields of the Client object
    outgoing,   \* the Writer's queue of request messages not yet sent
    sent,       \* request batches written to the socket, not yet answered
    wire,       \* bytes the server has sent that no 'data' event has delivered
    results,    \* the ResultIterator objects, one per execute() call
    iterators,  \* the async iterators made from the results
    log,        \* every call of a data or name handler, in order
    events,     \* every event emitted, in order
    fault,      \* the message of the last error a 'data' handler threw
    server,     \* the server: its statements and portals, what it answered
    harness     \* the driver: the socket, the scenario, the byte counters

vars == <<client, outgoing, sent, wire, results, iterators, log, events,
          fault, server, harness>>

----------------------------------------------------------------------------
(* Bounds of the model.                                                    *)

\* most queries issued on one connection
MaxQueries == 2
\* most row-data frames the server sends for one query
MaxRows == 2
\* most iterators made from the results of one connection
MaxIterators == 2
\* most queries issued while results are iterated
MaxIterQueries == 1
\* most fields of an error or notice payload the driver makes up
MaxFields == 3
\* most frames the driver injects, and most queries issued meanwhile
MaxInjected == 2
MaxFaultQueries == 1
\* most bytes of one chunk when a fixed stream is split
MaxChunk == 40

----------------------------------------------------------------------------
(* Values that stand for JavaScript's null / undefined.                    *)

\* null is the empty option; Some(x) is a value that is not null
Null == <<>>
Some(x) == <<x>>
Get(o) == o[1]
NoError == "none"

\* the minimum of two numbers
Min(a, b) == IF a < b THEN a ELSE b

----------------------------------------------------------------------------
(* Message type tags (the Message enum of ./protocol).                     *)

MsgAuthenticate == 82
MsgBackendKeyData == 75
MsgBindComplete == 50
MsgClose == 67
MsgCloseComplete == 51
MsgError == 69
MsgNoData == 110
MsgNotice == 78
MsgParseComplete == 49
MsgParameterDescription == 116
MsgParameterStatus == 83
MsgReadyForQuery == 90
MsgRowData == 68
MsgRowDescription == 84

\* type identifiers the value codec knows (./types)
TypeInt4 == 23
TypeText == 25

----------------------------------------------------------------------------
(* Buffer reads.                                                           *)

\* buffer.readInt8(pos)
readInt8(buffer, pos) ==
    LET b == buffer[pos + 1] IN IF b >= 128 THEN b - 256 ELSE b

\* buffer.readInt16BE(pos)
readInt16BE(buffer, pos) ==
    LET hi == buffer[pos + 1]
        lo == buffer[pos + 2]
    IN  (IF hi >= 128 THEN hi - 256 ELSE hi) * 256 + lo

\* buffer.readInt32BE(pos)
readInt32BE(buffer, pos) ==
    LET b0 == buffer[pos + 1]
        b1 == buffer[pos + 2]
        b2 == buffer[pos + 3]
        b3 == buffer[pos + 4]
    IN  (IF b0 >= 128 THEN b0 - 256 ELSE b0) * 16777216
            + b1 * 65536 + b2 * 256 + b3

\* how buffer.slice reads an index: a negative one counts from the end, and
\* the result is clamped to the buffer
SliceIndex(x, len) ==
    IF x < 0 THEN (IF len + x < 0 THEN 0 ELSE len + x) ELSE Min(x, len)

\* buffer.slice(from, to): the bytes at positions from .. to - 1
slice(buffer, from, to) ==
    LET a == SliceIndex(from, Len(buffer))
        b == SliceIndex(to, Len(buffer))
    IN  IF b <= a THEN <<>> ELSE SubSeq(buffer, a + 1, b)

\* buffer.indexOf('\0', from): the first position >= from holding 0, or -1
RECURSIVE indexOfNul(_, _)
indexOfNul(buffer, from) ==
    IF from >= Len(buffer) THEN -1
    ELSE IF buffer[from + 1] = 0 THEN from
    ELSE indexOfNul(buffer, from + 1)

----------------------------------------------------------------------------
(* The result pipeline (src/src/result.ts).                                *)
(*                                                                         *)
(* A world w is the record of everything a handler can change:             *)
(* [client, outgoing, sent, results, iterators, log, events, ticks,        *)
(* sockFull]; ticks are the callbacks queued with process.nextTick, and    *)
(* sockFull says whether the socket reports a full write buffer.           *)
(*                                                                         *)
(* results[q] is the ResultIterator made by the q-th execute() call:       *)
(*   rows        the array `rows` of makeResult, which is also the         *)
(*               iterator's `container`                                    *)
(*   prows       p.rows: FALSE while null, TRUE once it refers to that     *)
(*               array                                                     *)
(*   names       p.names: Null or Some(list of names)                      *)
(*   done        p.done                                                    *)
(*   settled     Null while the promise is pending; once resolved,         *)
(*               Some(names of the value it resolved to); the value's rows *)
(*               are the array p.rows refers to                            *)
(*   subscribers the resolve functions pushed by suspended pulls, each     *)
(*               named by <<iterator, number of the pull>>                 *)
(*                                                                         *)
(* iterators[k] is one async iterator:                                     *)
(*   q     the result it iterates                                          *)
(*   i     its cursor into the container                                   *)
(*   pull  the number of next() calls made so far                          *)
(*   wait  "none": no pull is in flight; "pending": the pull awaits its    *)
(*         promise; "true"/"false": the promise is resolved with that      *)
(*         value and the continuation has not run yet                      *)
(*   out   the values its pulls returned, in order                         *)
(*   ended whether a pull returned {done: true}                            *)
(***************************************************************************)

\* a subscriber (the resolve function of one pull's promise) is called with
\* `done`: it settles that promise unless it is settled already
CallSubscriber(its, sub, done) ==
    LET k == sub[1] IN
    IF its[k].pull = sub[2] /\ its[k].wait = "pending"
    THEN [its EXCEPT ![k].wait = IF done THEN "true" ELSE "false"]
    ELSE its

RECURSIVE CallSubscribers(_, _, _)
CallSubscribers(its, subs, done) ==
    IF subs = <<>> THEN its
    ELSE CallSubscribers(CallSubscriber(its, Head(subs), done), Tail(subs), done)

\* a notify that calls the subscribers and leaves `done` as it is
notifyForgetful(w, q, done) ==
    [w EXCEPT !.iterators = CallSubscribers(@, w.results[q].subscribers, done)]

\* ResultIterator.notify(done) of result q
notify(w, q, done) ==
    LET r1 == IF done THEN [w.results EXCEPT ![q].done = TRUE] ELSE w.results
    IN  [w EXCEPT !.results = r1,
                  !.iterators = CallSubscribers(@, r1[q].subscribers, done)]

\* the resolve callback the ResultIterator constructor hands to the executor
finish(w, q) ==
    IF w.results[q].settled # Null THEN w
    ELSE [w EXCEPT !.results[q].settled =
            Some(IF w.results[q].names = Null THEN <<>>
                 ELSE Get(w.results[q].names))]

\* a data handler that resolves the promise at its first call, whatever it
\* is called with
onDataEager(w, q, row) ==
    IF row = Null
    THEN LET w1 == [w EXCEPT !.results[q].prows = TRUE,
                             !.log = Append(@, [to |-> q, kind |-> "end", val |-> <<>>])]
         IN  notify(finish(w1, q), q, TRUE)
    ELSE LET w1 == [w EXCEPT !.results[q].rows = Append(@, Get(row)),
                             !.results[q].prows = TRUE,
                             !.log = Append(@, [to |-> q, kind |-> "row", val |-> Get(row)])]
         IN  notify(finish(w1, q), q, FALSE)

\* a data handler that tells the subscribers of the sentinel only
onDataSilent(w, q, row) ==
    IF row = Null
    THEN LET w1 == [w EXCEPT !.results[q].prows = TRUE,
                             !.log = Append(@, [to |-> q, kind |-> "end", val |-> <<>>])]
         IN  notify(finish(w1, q), q, TRUE)
    ELSE [w EXCEPT !.results[q].rows = Append(@, Get(row)),
                   !.log = Append(@, [to |-> q, kind |-> "row", val |-> Get(row)])]

\* onData of makeResult, the data handler of query q; row is Null or
\* Some(row)
onData(w, q, row) ==
    IF row = Null
    THEN LET w1 == [w EXCEPT !.results[q].prows = TRUE,
                             !.log = Append(@, [to |-> q, kind |-> "end", val |-> <<>>])]
         IN  notify(finish(w1, q), q, TRUE)
    ELSE LET w1 == [w EXCEPT !.results[q].rows = Append(@, Get(row)),
                             !.log = Append(@, [to |-> q, kind |-> "row", val |-> Get(row)])]
         IN  notify(w1, q, FALSE)

\* onNames of makeResult, the name handler of query q
onNames(w, q, names) ==
    [w EXCEPT !.results[q].names = Some(names),
              !.log = Append(@, [to |-> q, kind |-> "names", val |-> names])]

\* a new ResultIterator
NewResult ==
    [rows |-> <<>>, prows |-> FALSE, names |-> Null, done |-> FALSE,
     settled |-> Null, subscribers |-> <<>>]

\* makeResult: the new result is results[q]; its handlers are registered
makeResult(w, q) ==
    [w EXCEPT !.results = Append(@, NewResult),
              !.client.dataHandlers = Append(@, q),
              !.client.nameHandlers = Append(@, q)]

\* the value the promise of result q resolved to
Resolved(res) ==
    [names |-> Get(res.settled),
     rows |-> IF res.prows THEN res.rows ELSE <<>>]

----------------------------------------------------------------------------
(* The wire format and the decoders of ./protocol and ./types.             *)
(*                                                                         *)
(* A frame is a type tag, a 4-byte big-endian length that counts itself    *)
(* and the payload, and the payload.                                       *)
(***************************************************************************)

\* the 2-byte and 4-byte big-endian encodings of 0 <= n < 65536
I16(n) == <<n \div 256, n % 256>>
I32(n) == <<0, 0, n \div 256, n % 256>>

\* a null-terminated string
CString(str) == str \o <<0>>

\* one frame
Frame(tag, payload) == <<tag>> \o I32(Len(payload) + 4) \o payload

RECURSIVE Concat(_)
Concat(seqs) == IF seqs = <<>> THEN <<>> ELSE Head(seqs) \o Concat(Tail(seqs))

\* a row description payload: the field count, then per field its name and
\* 18 bytes of metadata (table 4, column 2, type 4, size 2, modifier 4,
\* format 2)
FieldBytes(name, type) ==
    CString(name) \o I32(0) \o I16(0) \o I32(type) \o I16(0) \o I32(0) \o I16(0)

RowDescriptionFrame(names, types) ==
    Frame(MsgRowDescription,
          I16(Len(names)) \o
          Concat([j \in 1..Len(names) |-> FieldBytes(names[j], types[j])]))

\* a row-data payload: the column count, then per column its length and
\* its bytes
RowDataFrame(cols) ==
    Frame(MsgRowData,
          I16(Len(cols)) \o
          Concat([j \in 1..Len(cols) |-> I32(Len(cols[j])) \o cols[j]]))

\* an error or notice payload: tagged null-terminated fields, then a 0
FieldsPayload(fields) ==
    Concat([j \in 1..Len(fields) |-> <<fields[j][1]>> \o CString(fields[j][2])])
        \o <<0>>

\* the field tags 'V', 'C' and 'M' of an error or notice payload
TagSeverity == 86
TagCode == 67
TagMessage == 77

ErrorFields(level, code, message) ==
    <<<<TagSeverity, level>>, <<TagCode, code>>, <<TagMessage, message>>>>

\* TransactionStatus.Idle, 'I'
TxIdle == 73

\* readRowDescription: the names and the type identifiers of the fields
RECURSIVE readFields(_, _, _, _)
readFields(buffer, pos, left, acc) ==
    IF left <= 0 THEN acc
    ELSE LET nul == indexOfNul(buffer, pos)
             name == slice(buffer, pos, nul)
             type == readInt32BE(buffer, nul + 7)
         IN  readFields(buffer, nul + 19, left - 1,
                        [names |-> Append(acc.names, name),
                         types |-> Append(acc.types, type)])

readRowDescription(buffer, start) ==
    readFields(buffer, start + 2, readInt16BE(buffer, start),
               [names |-> <<>>, types |-> <<>>])

\* a decimal number in ASCII
RECURSIVE ParseDecimal(_, _)
ParseDecimal(bytes, acc) ==
    IF bytes = <<>> THEN acc
    ELSE ParseDecimal(Tail(bytes), acc * 10 + (Head(bytes) - 48))

\* the value codec: a value is [oid, v], v being <<n>> for an int4 and the
\* characters for anything else
ReadValue(oid, bytes) ==
    IF oid = TypeInt4 THEN [oid |-> oid, v |-> <<ParseDecimal(bytes, 0)>>]
    ELSE [oid |-> oid, v |-> bytes]

\* readRowData: the values of the row-data frame whose payload starts at
\* `start`, each decoded as the description's type for its column says
RECURSIVE readColumns(_, _, _, _, _)
readColumns(buffer, pos, j, count, description) ==
    IF j > count THEN <<>>
    ELSE LET len == readInt32BE(buffer, pos)
             oid == IF j <= Len(description.types)
                    THEN description.types[j] ELSE 0
             raw == slice(buffer, pos + 4, pos + 4 + len)
         IN  <<ReadValue(oid, raw)>> \o
             readColumns(buffer, pos + 4 + (IF len < 0 THEN 0 ELSE len),
                         j + 1, count, description)

readRowData(buffer, start, description) ==
    readColumns(buffer, start + 2, 1, readInt16BE(buffer, start), description)

\* whether readRowData reads its integers inside the buffer: a read past the
\* end of a Buffer throws a RangeError
RECURSIVE columnsInRange(_, _, _, _)
columnsInRange(buffer, pos, j, count) ==
    IF j > count THEN TRUE
    ELSE IF pos + 4 > Len(buffer) THEN FALSE
    ELSE LET Rest(len) ==
                columnsInRange(buffer, pos + 4 + (IF len < 0 THEN 0 ELSE len),
                               j + 1, count)
         IN  Rest(readInt32BE(buffer, pos))

rowInRange(buffer, start) ==
    IF start + 2 > Len(buffer) THEN FALSE
    ELSE columnsInRange(buffer, start + 2, 1, readInt16BE(buffer, start))

----------------------------------------------------------------------------
(* The Writer of ./protocol: its operations queue request messages, and    *)
(* send() writes the queue to the socket and reports whether the caller    *)
(* must wait for the socket's 'drain'.                                     *)
(*                                                                         *)
(* A request message is [op, name, portal, text]; a query text is          *)
(* [kind, n, tag, params]: what the statement does at the server (kind,    *)
(* and n rows for a "select"), a tag that tells the statements apart, and  *)
(* the number of parameters it takes.                                      *)
(***************************************************************************)

NoText == [kind |-> "", n |-> 0, tag |-> 0, params |-> 0]

Request(op, name, portal, text) ==
    [op |-> op, name |-> name, portal |-> portal, text |-> text]

\* a Writer operation that queues one message
queue(w, msg) == [w EXCEPT !.outgoing = Append(@, msg)]

\* Writer operations called one after the other
queueAll(w, msgs) == [w EXCEPT !.outgoing = @ \o msgs]

\* Writer.startup and Writer.password write to the socket at once
writeNow(w, msg) == [w EXCEPT !.sent = Append(@, msg)]

\* the messages up to and including the first "sync" (all when there is none)
RECURSIVE FirstBatch(_)
FirstBatch(msgs) ==
    IF msgs = <<>> THEN <<>>
    ELSE IF Head(msgs).op \in {"sync", "startup", "password", "end"}
         THEN <<Head(msgs)>>
         ELSE <<Head(msgs)>> \o FirstBatch(Tail(msgs))

\* Writer.send(): w.sockFull says whether the socket's write reports a full
\* buffer during the running handler; w.sends notes each call of the running
\* handler: the client's ready and mustDrain then, and what it reported
send(w) ==
    LET Called(wait) ==
            [w EXCEPT !.sends = Append(@, [ready |-> w.client.ready,
                                           mustDrain |-> w.client.mustDrain,
                                           wait |-> wait])]
    IN  IF w.outgoing = <<>> THEN [w |-> Called(FALSE), wait |-> FALSE]
        ELSE [w |-> [Called(w.sockFull) EXCEPT !.sent = @ \o w.outgoing,
                                               !.outgoing = <<>>],
              wait |-> w.sockFull]

----------------------------------------------------------------------------
(* The Client (src/src/client.ts).                                         *)

\* a flush that does not wait for the socket to drain
flushUnthrottled(w) ==
    IF ~w.client.ready THEN w
    ELSE LET Sent(r) ==
                IF r.wait THEN [r.w EXCEPT !.client.mustDrain = TRUE] ELSE r.w
         IN  Sent(send(w))

\* Client.flush
flush(w) ==
    IF ~w.client.ready \/ w.client.mustDrain THEN w
    ELSE LET Sent(r) ==
                IF r.wait THEN [r.w EXCEPT !.client.mustDrain = TRUE] ELSE r.w
         IN  Sent(send(w))

\* events.<name>.emit(data): data is [a, b, c], the strings of the event;
\* `heard` says whether a callback registered with on() was called with it
emit(w, name, a, b, c) ==
    [w EXCEPT !.events = Append(@, [name |-> name, a |-> a, b |-> b, c |-> c,
                                    heard |-> name \in w.client.listeners])]

\* Client.on(event, callback): client.listeners holds the events whose
\* TypedEvent has the callback
on(w, event) ==
    CASE event = "connect" -> [w EXCEPT !.client.listeners = @ \cup {"connect"}]
      [] event = "end" -> [w EXCEPT !.client.listeners = @ \cup {"end"}]
      [] event = "error" -> [w EXCEPT !.client.listeners = @ \cup {"error"}]
      [] event = "notice" -> [w EXCEPT !.client.listeners = @ \cup {"notice"}]
      [] OTHER -> w

\* a string is truthy unless it is null or empty
Truthy(o) == o # Null /\ Get(o) # <<>>

\* the loop of Client.parseError over the fields of the payload
RECURSIVE parseErrorLoop(_, _, _)
parseErrorLoop(buffer, offset, acc) ==
    IF ~(offset < Len(buffer)) THEN acc
    ELSE LET next == indexOfNul(buffer, offset) IN
         IF next < 0 THEN acc
         ELSE LET value == slice(buffer, offset + 1, next)
                  tag == buffer[offset + 1]
                  acc1 == CASE tag = TagSeverity -> [acc EXCEPT !.level = Some(value)]
                            [] tag = TagCode -> [acc EXCEPT !.code = Some(value)]
                            [] tag = TagMessage -> [acc EXCEPT !.message = Some(value)]
                            [] OTHER -> acc
              IN  parseErrorLoop(buffer, next + 1, acc1)

\* a parseError that does not ask for the message
parseErrorLax(buffer) ==
    LET Parsed(r) ==
            IF Truthy(r.level) /\ Truthy(r.code)
            THEN [thrown |-> NoError, level |-> Get(r.level),
                  code |-> Get(r.code),
                  message |-> IF r.message = Null THEN <<>> ELSE Get(r.message)]
            ELSE [thrown |-> "Unable to parse error message.", level |-> <<>>,
                  code |-> <<>>, message |-> <<>>]
    IN  Parsed(parseErrorLoop(buffer, 0,
                              [level |-> Null, code |-> Null, message |-> Null]))

\* Client.parseError: [thrown, level, code, message]
parseError(buffer) ==
    LET Parsed(r) ==
            IF Truthy(r.level) /\ Truthy(r.code) /\ Truthy(r.message)
            THEN [thrown |-> NoError, level |-> Get(r.level),
                  code |-> Get(r.code), message |-> Get(r.message)]
            ELSE [thrown |-> "Unable to parse error message.", level |-> <<>>,
                  code |-> <<>>, message |-> <<>>]
    IN  Parsed(parseErrorLoop(buffer, 0,
                              [level |-> Null, code |-> Null, message |-> Null]))

\* what a step of receive() hands back: the world, and the error thrown
Ok(w) == [w |-> w, thrown |-> NoError]
Thrown(w, msg) == [w |-> w, thrown |-> msg]

\* the Error and Notice cases of the switch
DispatchError(w, buffer, start, length, name) ==
    LET Emit(e) ==
            IF e.thrown # NoError THEN Thrown(w, e.thrown)
            ELSE Ok(emit(w, name, e.level, e.code, e.message))
    IN  Emit(parseError(slice(buffer, start, start + length)))

\* the requests the Parameter description case queues for the context ps
BindRequests(ps) ==
    <<Request("bind", ps.name, ps.portal, NoText),
      Request("execute", <<>>, ps.portal, NoText),
      Request("closeS", ps.name, <<>>, NoText)>>
        \o (IF ps.portal # <<>>
            THEN <<Request("closeP", <<>>, ps.portal, NoText)>> ELSE <<>>)
        \o <<Request("sync", <<>>, <<>>, NoText)>>

\* the Parameter description case of the switch
DispatchParameterDescription(w, buffer, start) ==
    IF w.client.preparedStatements = <<>> THEN w
    ELSE flush(queueAll([w EXCEPT !.client.preparedStatements = Tail(@)],
                        BindRequests(Head(w.client.preparedStatements))))

\* the Parameter status case of the switch
DispatchParameterStatus(w, buffer, start) ==
    LET Emit(i) ==
            emit(w, "parameter", slice(buffer, start, i),
                 slice(buffer, i + 1, indexOfNul(buffer, i + 1)), <<>>)
    IN  Emit(indexOfNul(buffer, start))

\* the Row description case of the switch
DispatchRowDescription(w, buffer, start) ==
    LET Push(description) ==
            IF w.client.nameHandlers = <<>>
            THEN [w EXCEPT !.client.rowDescriptions = Append(@, description)]
            ELSE onNames([w EXCEPT !.client.rowDescriptions = Append(@, description),
                                   !.client.nameHandlers = Tail(@)],
                         Head(w.client.nameHandlers), description.names)
    IN  Push(readRowDescription(buffer, start))

\* a Close case that ends the stream and keeps the delivery context
DispatchCloseKeeps(w) ==
    LET info == w.client.activeDataHandlerInfo
    IN  IF info = Null THEN w
        ELSE onData(w, Get(info).handler, Null)

\* the Close case of the switch
DispatchClose(w) ==
    LET info == w.client.activeDataHandlerInfo
    IN  IF info = Null THEN w
        ELSE [onData(w, Get(info).handler, Null)
                 EXCEPT !.client.activeDataHandlerInfo = Null]

\* the Authenticate case of the switch
DispatchAuthenticate(w, buffer, start) ==
    LET code == readInt32BE(buffer, start)
    IN  IF code = 0
        THEN [w EXCEPT !.client.transactionStatus = Some(TxIdle),
                       !.client.connecting = FALSE,
                       !.ticks = Append(@, "connect")]
        ELSE IF code = 3
        THEN writeNow(w, Request("password", <<>>, <<>>, NoText))
        ELSE w

\* the switch of receive() over the type of a complete frame whose payload
\* is the `length` bytes at `start`
Dispatch(w, buffer, mtype, start, length) ==
    CASE mtype = MsgAuthenticate -> Ok(DispatchAuthenticate(w, buffer, start))
      [] mtype = MsgBackendKeyData ->
            Ok([w EXCEPT !.client.processId = Some(readInt32BE(buffer, start)),
                         !.client.secretKey = Some(readInt32BE(buffer, start + 4))])
      [] mtype = MsgBindComplete -> Ok(w)
      [] mtype = MsgClose -> Ok(DispatchClose(w))
      [] mtype = MsgCloseComplete -> Ok(w)
      [] mtype = MsgError -> DispatchError(w, buffer, start, length, "error")
      [] mtype = MsgNotice -> DispatchError(w, buffer, start, length, "notice")
      [] mtype = MsgParseComplete -> Ok(w)
      [] mtype = MsgParameterDescription ->
            Ok(DispatchParameterDescription(w, buffer, start))
      [] mtype = MsgParameterStatus -> Ok(DispatchParameterStatus(w, buffer, start))
      [] mtype = MsgReadyForQuery ->
            Ok(flush([w EXCEPT !.client.transactionStatus = Some(readInt8(buffer, start)),
                               !.client.ready = TRUE]))
      [] mtype = MsgRowDescription -> Ok(DispatchRowDescription(w, buffer, start))
      [] OTHER -> Ok(w)

\* what receive() hands back: the world, the bytes consumed, the error
\* thrown
Return(w, read) == [w |-> w, read |-> read, thrown |-> NoError]
Throw(w, read, msg) == [w |-> w, read |-> read, thrown |-> msg]

\* an `if (!info)` block that lets a frame pass when no handler or no row
\* description is registered
AcquireLenient(w, isNoData) ==
    IF w.client.activeDataHandlerInfo # Null THEN Ok(w)
    ELSE IF w.client.dataHandlers = <<>> THEN Ok(w)
    ELSE LET handler == Head(w.client.dataHandlers)
             w1 == [w EXCEPT !.client.dataHandlers = Tail(@)]
         IN  IF isNoData THEN Ok(onData(w1, handler, Null))
             ELSE IF w1.client.rowDescriptions = <<>> THEN Ok(w1)
             ELSE Ok([w1 EXCEPT
                        !.client.rowDescriptions = Tail(@),
                        !.client.activeDataHandlerInfo =
                            Some([handler |-> handler,
                                  description |-> Head(w1.client.rowDescriptions)])])

\* the `if (!info)` block of the fast path: with no active delivery context,
\* the next data handler is taken; "no data" ends its stream, row data pairs
\* it with the next row description
Acquire(w, isNoData) ==
    IF w.client.activeDataHandlerInfo # Null THEN Ok(w)
    ELSE IF w.client.dataHandlers = <<>>
    THEN Thrown(w, "Unexpected data received.")
    ELSE LET handler == Head(w.client.dataHandlers)
             w1 == [w EXCEPT !.client.dataHandlers = Tail(@)]
         IN  IF isNoData THEN Ok(onData(w1, handler, Null))
             ELSE IF w1.client.rowDescriptions = <<>>
             THEN Thrown(w1, "Row description expected.")
             ELSE Ok([w1 EXCEPT
                        !.client.rowDescriptions = Tail(@),
                        !.client.activeDataHandlerInfo =
                            Some([handler |-> handler,
                                  description |-> Head(w1.client.rowDescriptions)])])

RECURSIVE receiveLoop(_, _, _, _, _)
RECURSIVE fastPath(_, _, _, _, _)

\* a general path that counts a frame as read before its last byte is there
generalPathOvercount(w, buffer, offset, size, read, mtype) ==
    LET Continue(d, total) ==
            IF d.thrown # NoError THEN Throw(d.w, read, d.thrown)
            ELSE receiveLoop([d.w EXCEPT !.client.expect = 5],
                             buffer, offset, size, read + total)
        Frame2(frame, length) ==
            IF size < (length + 5) + read
            THEN Return([w EXCEPT !.client.expect = length + 5],
                        read + (length + 5))
            ELSE Continue(Dispatch(w, buffer, mtype, frame + 5, length),
                          length + 5)
    IN  Frame2(offset + read, readInt32BE(buffer, (offset + read) + 1) - 4)

\* a general path that leaves `expect` as it is once a frame is dispatched
generalPathStaleExpect(w, buffer, offset, size, read, mtype) ==
    LET Continue(d, total) ==
            IF d.thrown # NoError THEN Throw(d.w, read, d.thrown)
            ELSE receiveLoop(d.w, buffer, offset, size, read + total)
        Frame2(frame, length) ==
            IF size < (length + 5) + read
            THEN Return([w EXCEPT !.client.expect = length + 5], read)
            ELSE Continue(Dispatch(w, buffer, mtype, frame + 5, length),
                          length + 5)
    IN  Frame2(offset + read, readInt32BE(buffer, (offset + read) + 1) - 4)

\* the general path of receive(): the frame at the cursor is neither row
\* data nor "no data"
generalPath(w, buffer, offset, size, read, mtype) ==
    LET Continue(d, total) ==
            IF d.thrown # NoError THEN Throw(d.w, read, d.thrown)
            ELSE receiveLoop([d.w EXCEPT !.client.expect = 5],
                             buffer, offset, size, read + total)
        Frame2(frame, length) ==
            IF size < (length + 5) + read
            THEN Return([w EXCEPT !.client.expect = length + 5], read)
            ELSE Continue(Dispatch(w, buffer, mtype, frame + 5, length),
                          length + 5)
    IN  Frame2(offset + read, readInt32BE(buffer, (offset + read) + 1) - 4)

\* a fast path that drops the delivery context when a row is cut by the end
\* of the chunk
fastPathRowForgetful(wa, buffer, offset, size, read, bytes) ==
    LET frame == offset + read
        Next2(w2) ==
            IF size < (frame + bytes) + 5
            THEN Return([w2 EXCEPT !.client.expect = 5], read + bytes)
            ELSE fastPath(w2, buffer, offset, size, read + bytes)
        Row(info) ==
            IF info # Null /\ size < bytes + read
            THEN Return([wa EXCEPT !.client.expect = bytes,
                                   !.client.activeDataHandlerInfo = Null],
                        read)
            ELSE IF info = Null THEN Next2(wa)
            ELSE IF ~rowInRange(buffer, frame + 5)
            THEN Throw(wa, read, "ERR_OUT_OF_RANGE")
            ELSE Next2(onData(wa, Get(info).handler,
                              Some(readRowData(buffer, frame + 5,
                                               Get(info).description))))
    IN  Row(wa.client.activeDataHandlerInfo)

\* the rest of one round of the fast path, once the handler is acquired:
\* wa is the world then, bytes the size of the frame
fastPathRow(wa, buffer, offset, size, read, bytes) ==
    LET frame == offset + read
        Next2(w2) ==
            IF size < (frame + bytes) + 5
            THEN Return([w2 EXCEPT !.client.expect = 5], read + bytes)
            ELSE fastPath(w2, buffer, offset, size, read + bytes)
        Row(info) ==
            IF info # Null /\ size < bytes + read
            THEN Return([wa EXCEPT !.client.expect = bytes], read)
            ELSE IF info = Null THEN Next2(wa)
            ELSE IF ~rowInRange(buffer, frame + 5)
            THEN Throw(wa, read, "ERR_OUT_OF_RANGE")
            ELSE Next2(onData(wa, Get(info).handler,
                              Some(readRowData(buffer, frame + 5,
                                               Get(info).description))))
    IN  Row(wa.client.activeDataHandlerInfo)

\* the fast path of receive(), the `while (true)` loop; the code's `frame`
\* is offset + read throughout
fastPath(w, buffer, offset, size, read) ==
    LET frame == offset + read
        Acquired(a) ==
            IF a.thrown # NoError THEN Throw(a.w, read, a.thrown)
            ELSE fastPathRow(a.w, buffer, offset, size, read,
                             readInt32BE(buffer, frame + 1) + 1)
        Type(mtype) ==
            IF mtype # MsgRowData /\ mtype # MsgNoData
            THEN generalPath(w, buffer, offset, size, read, mtype)
            ELSE Acquired(Acquire(w, mtype = MsgNoData))
    IN  Type(readInt8(buffer, frame))

\* the `while (size >= this.expect + read)` loop of receive()
receiveLoop(w, buffer, offset, size, read) ==
    IF size >= w.client.expect + read
    THEN fastPath(w, buffer, offset, size, read)
    ELSE Return(w, read)

\* Client.receive
receive(w, buffer, offset, size) == receiveLoop(w, buffer, offset, size, 0)

\* source.copy(target, targetStart, sourceStart, sourceEnd): the target
\* after the copy, which stops where the target ends
copy(source, target, targetStart, sourceStart, sourceEnd) ==
    LET n == Min(sourceEnd - sourceStart, Len(target) - targetStart)
    IN  [i \in 1..Len(target) |->
            IF i - 1 >= targetStart /\ i - 1 < targetStart + n
            THEN source[sourceStart + (i - 1 - targetStart) + 1]
            ELSE target[i]]

\* Buffer.allocUnsafe(size): memory of unknown content; every byte of it is
\* overwritten before it is read, so one content stands for all
allocUnsafe(size) == [i \in 1..size |-> 255]

\* a reassembly that copies the head of the old buffer, not its unread bytes
reassembleFromStart(w, chunk) ==
    LET length == Len(chunk)
        remaining == w.client.remaining
    IN  IF w.client.buffer # Null /\ remaining # 0
        THEN [w EXCEPT
                !.client.buffer =
                    Some(copy(chunk,
                              copy(Get(w.client.buffer),
                                   allocUnsafe(length + remaining), 0, 0,
                                   remaining),
                              remaining, 0, length)),
                !.client.offset = 0]
        ELSE [w EXCEPT !.client.buffer = Some(chunk), !.client.offset = 0]

\* a reassembly that keeps the old buffer whole under the appended chunk
reassembleHoarding(w, chunk) ==
    IF w.client.buffer # Null /\ w.client.remaining # 0
    THEN [w EXCEPT
            !.client.buffer =
                Some(copy(chunk,
                          copy(Get(w.client.buffer),
                               allocUnsafe(Len(Get(w.client.buffer))
                                            + w.client.remaining + Len(chunk)),
                               0, w.client.offset,
                               w.client.offset + w.client.remaining),
                          w.client.remaining, 0, Len(chunk))),
            !.client.offset = 0]
    ELSE [w EXCEPT !.client.buffer = Some(chunk), !.client.offset = 0]

\* the reassembly of the 'data' handler: the buffer and the offset once the
\* chunk is appended to the unread bytes
reassemble(w, chunk) ==
    LET length == Len(chunk)
        remaining == w.client.remaining
        size == length + remaining
    IN  IF w.client.buffer # Null /\ remaining # 0
        THEN LET buffer == Get(w.client.buffer)
                 free == Len(buffer) - w.client.offset - remaining
                 tail == w.client.offset + remaining
             IN  IF free < length
                 THEN [w EXCEPT
                         !.client.buffer =
                            Some(copy(chunk,
                                      copy(buffer, allocUnsafe(size), 0,
                                           w.client.offset, tail),
                                      remaining, 0, length)),
                         !.client.offset = 0]
                 ELSE [w EXCEPT
                         !.client.buffer = Some(copy(chunk, buffer, tail, 0, length))]
        ELSE [w EXCEPT !.client.buffer = Some(chunk), !.client.offset = 0]

\* the 'data' handler of the socket: [w, read, thrown]; when receive()
\* throws, offset and remaining keep their values
onSocketData(w, chunk) ==
    LET size == Len(chunk) + w.client.remaining
        Received(r) ==
            IF r.thrown # NoError THEN Throw(r.w, 0, r.thrown)
            ELSE Return([r.w EXCEPT !.client.offset = @ + r.read,
                                    !.client.remaining = size - r.read],
                        r.read)
        Reassembled(w1) ==
            Received(receive(w1, Get(w1.client.buffer), w1.client.offset, size))
    IN  Reassembled(reassemble(w, chunk))

\* the requests execute() queues for a query with arguments, and the
\* context it pushes
PrepareRequests(name, query) ==
    <<Request("parse", name, <<>>, query.text),
      Request("describeS", name, <<>>, NoText),
      Request("sync", <<>>, <<>>, NoText)>>

\* the requests execute() queues for a query without arguments
PlainRequests(query) ==
    <<Request("parse", query.name, <<>>, query.text),
      Request("bind", query.name, query.portal, NoText),
      Request("describeP", <<>>, query.portal, NoText),
      Request("execute", <<>>, query.portal, NoText),
      Request("sync", <<>>, <<>>, NoText)>>

\* the `if (args.length)` statement of execute()
prepare(w, query) ==
    IF query.args # <<>>
    THEN LET Named(name, wa) ==
                [queueAll(wa, PrepareRequests(name, query))
                    EXCEPT !.client.preparedStatements =
                        Append(@, [name |-> name, portal |-> query.portal,
                                   args |-> query.args])]
         IN  IF query.name # <<>> THEN Named(query.name, w)
             ELSE Named(<<w.client.nextPreparedStatementId>>,
                        [w EXCEPT !.client.nextPreparedStatementId = @ + 1])
    ELSE queueAll(w, PlainRequests(query))

\* Client.execute: a query is [text, args, name, portal], an absent name or
\* portal being the empty string
execute(w, query) == flush(makeResult(prepare(w, query), Len(w.results) + 1))

\* the errno of a reset by the peer, and one of another socket error
ECONNRESET == 104
EPIPE == 32

\* Client.end(): writer.end() queues the message that ends the session
end(w) ==
    IF w.client.closed THEN Thrown(w, "Connection already closed.")
    ELSE Ok(flush(queue([w EXCEPT !.client.ending = TRUE],
                        Request("end", <<>>, <<>>, NoText))))

\* an 'error' handler that tells every error to the application
onSocketErrorLoud(w, errno) == emit(w, "end", <<>>, <<>>, <<>>)

\* the socket's 'error' handler
onSocketError(w, errno) ==
    IF w.client.ending /\ errno = ECONNRESET THEN w
    ELSE emit(w, "end", <<>>, <<>>, <<>>)

\* the socket's 'finish' handler
onSocketFinish(w) ==
    emit([w EXCEPT !.client.closed = TRUE], "end", <<>>, <<>>, <<>>)

\* the socket's 'close' handler
onSocketClose(w) == [w EXCEPT !.client.ready = FALSE]

----------------------------------------------------------------------------
(* The server: it answers the request messages in the order in which they  *)
(* were written, as the protocol has it.                                   *)
(*                                                                         *)
(* The table a statement reads is named by the tag of its text: table 0    *)
(* has the fields id (int4) and name (text) and the rows (1, a), (2, b),   *)
(* ...; table t > 0 has one field, an int4 when t is odd and a text when   *)
(* it is even, and its j-th row holds the digits t and j.                  *)
(***************************************************************************)

FieldNames(text) ==
    IF text.tag = 0 THEN <<<<105, 100>>, <<110, 97, 109, 101>>>>
    ELSE <<<<96 + text.tag>>>>

FieldTypes(text) ==
    IF text.tag = 0 THEN <<TypeInt4, TypeText>>
    ELSE IF text.tag % 2 = 1 THEN <<TypeInt4>> ELSE <<TypeText>>

\* the bytes of the columns of row j
RowColumns(text, j) ==
    IF text.tag = 0 THEN <<<<48 + j>>, <<96 + j>>>>
    ELSE <<<<48 + text.tag, 48 + j>>>>

\* the values of row j
RowValues(text, j) ==
    IF text.tag = 0
    THEN <<[oid |-> TypeInt4, v |-> <<j>>], [oid |-> TypeText, v |-> <<96 + j>>]>>
    ELSE IF text.tag % 2 = 1
    THEN <<[oid |-> TypeInt4, v |-> <<10 * text.tag + j>>]>>
    ELSE <<[oid |-> TypeText, v |-> <<48 + text.tag, 48 + j>>]>>

\* the rows a statement yields
ExpectedRows(text) ==
    IF text.kind = "select" THEN [j \in 1..text.n |-> RowValues(text, j)] ELSE <<>>

HasRowDescription(text) == text.kind \in {"select", "empty"}

\* single frames
GreetingFrames ==
    Frame(MsgAuthenticate, I32(0))
        \o Frame(MsgParameterStatus, CString(<<116, 122>>) \o CString(<<85>>))
        \o Frame(MsgBackendKeyData, I32(7) \o I32(9))
        \o Frame(MsgReadyForQuery, <<TxIdle>>)
ReadyFrame == Frame(MsgReadyForQuery, <<TxIdle>>)
CommandCompleteFrame == Frame(MsgClose, CString(<<83>>))
NoDataFrame == Frame(MsgNoData, <<>>)
ErrorFrame ==
    Frame(MsgError, FieldsPayload(ErrorFields(<<69>>, <<52, 50>>, <<120>>)))
NoticeFrame ==
    Frame(MsgNotice, FieldsPayload(ErrorFields(<<87>>, <<48, 49>>, <<121>>)))
ParameterDescriptionFrame(n) ==
    Frame(MsgParameterDescription,
          I16(n) \o Concat([j \in 1..n |-> I32(TypeInt4)]))
DescribeFrames(text) ==
    IF HasRowDescription(text)
    THEN RowDescriptionFrame(FieldNames(text), FieldTypes(text))
    ELSE NoDataFrame
ExecuteFrames(text) ==
    Concat([j \in 1..(IF text.kind = "select" THEN text.n ELSE 0) |->
                RowDataFrame(RowColumns(text, j))])
        \o CommandCompleteFrame

\* maps as sets of <<key, value>>
Has(map, key) == \E p \in map : p[1] = key
Lookup(map, key) == (CHOOSE p \in map : p[1] = key)[2]
Put(map, key, val) == {p \in map : p[1] # key} \cup {<<key, val>>}

\* the server takes one message: sv is [stmts, portals, failed, out,
\* executed], executed being the tags of the statements it ran, in order;
\* after an error it skips the messages up to the next sync
ServeFail(sv) == [sv EXCEPT !.failed = TRUE, !.out = @ \o ErrorFrame]

ServeOne(sv, m) ==
    IF sv.failed /\ m.op # "sync" THEN sv
    ELSE CASE m.op = "startup" -> [sv EXCEPT !.out = @ \o GreetingFrames]
           [] m.op = "password" -> [sv EXCEPT !.out = @ \o GreetingFrames]
           [] m.op = "parse" ->
                IF m.text.kind = "bad" THEN ServeFail(sv)
                ELSE [sv EXCEPT !.stmts = Put(@, m.name, m.text),
                                !.out = @ \o Frame(MsgParseComplete, <<>>)]
           [] m.op = "describeS" ->
                IF ~Has(sv.stmts, m.name) THEN ServeFail(sv)
                ELSE [sv EXCEPT !.out = @
                        \o ParameterDescriptionFrame(Lookup(sv.stmts, m.name).params)
                        \o DescribeFrames(Lookup(sv.stmts, m.name))]
           [] m.op = "bind" ->
                IF ~Has(sv.stmts, m.name) THEN ServeFail(sv)
                ELSE [sv EXCEPT !.portals = Put(@, m.portal, Lookup(sv.stmts, m.name)),
                                !.out = @ \o Frame(MsgBindComplete, <<>>)]
           [] m.op = "describeP" ->
                IF ~Has(sv.portals, m.portal) THEN ServeFail(sv)
                ELSE [sv EXCEPT !.out = @ \o DescribeFrames(Lookup(sv.portals, m.portal))]
           [] m.op = "execute" ->
                IF ~Has(sv.portals, m.portal) THEN ServeFail(sv)
                ELSE [sv EXCEPT
                        !.out = @ \o ExecuteFrames(Lookup(sv.portals, m.portal)),
                        !.executed = Append(@, Lookup(sv.portals, m.portal).tag)]
           [] m.op = "closeS" ->
                [sv EXCEPT !.stmts = {p \in @ : p[1] # m.name},
                           !.out = @ \o Frame(MsgCloseComplete, <<>>)]
           [] m.op = "closeP" ->
                [sv EXCEPT !.portals = {p \in @ : p[1] # m.portal},
                           !.out = @ \o Frame(MsgCloseComplete, <<>>)]
           [] m.op = "sync" -> [sv EXCEPT !.failed = FALSE, !.out = @ \o ReadyFrame]
           [] OTHER -> sv

RECURSIVE Serve(_, _)
Serve(sv, msgs) ==
    IF msgs = <<>> THEN sv ELSE Serve(ServeOne(sv, Head(msgs)), Tail(msgs))

----------------------------------------------------------------------------
(* The state and the actions.                                              *)

\* the Client after its constructor
NewClient ==
    [ending |-> FALSE, connecting |-> FALSE, buffer |-> Null, expect |-> 5,
     offset |-> 0, closed |-> FALSE, remaining |-> 0, dataHandlers |-> <<>>,
     nameHandlers |-> <<>>, rowDescriptions |-> <<>>,
     preparedStatements |-> <<>>, nextPreparedStatementId |-> 0,
     activeDataHandlerInfo |-> Null, ready |-> FALSE, mustDrain |-> FALSE,
     processId |-> Null, secretKey |-> Null, transactionStatus |-> Null,
     listeners |-> {}]

\* the world a handler starts in
World(full) ==
    [client |-> client, outgoing |-> outgoing, sent |-> sent,
     results |-> results, iterators |-> iterators, log |-> log,
     events |-> events, ticks |-> <<>>, sockFull |-> full, sends |-> <<>>]

\* the callbacks queued with process.nextTick run once the handler is over
RECURSIVE RunTicks(_)
RunTicks(w) ==
    IF w.ticks = <<>> THEN w
    ELSE RunTicks(emit([w EXCEPT !.ticks = Tail(@)], Head(w.ticks), <<>>, <<>>, <<>>))

\* the world a handler leaves
Assign(w) ==
    /\ client' = w.client
    /\ outgoing' = w.outgoing
    /\ sent' = w.sent
    /\ results' = w.results
    /\ iterators' = w.iterators
    /\ log' = w.log
    /\ events' = w.events

SetWorld(w) == Assign(RunTicks(w))

NewServer ==
    [stmts |-> {}, portals |-> {}, failed |-> FALSE, out |-> <<>>,
     executed |-> <<>>]

\* The driver's record, harness, is [socket, scenario, issued, received,
\* consumed, responses, pipelined, split, midrow, grown]: the state of the
\* socket,
\* the scenario fed (0 when the server answers), the queries issued, the
\* bytes the 'data' handler was given and the sum of what receive()
\* returned, whether a response has arrived, whether every query was issued
\* before any response, whether a chunk ended inside a frame, whether one
\* ended inside a row and whether a chunk was appended to unread bytes in a
\* new buffer.

\* the queries the driver issues: the q-th one reads table q
Kinds == {"select", "empty", "update", "bad"}

Queries(tag) ==
    {[text |-> [kind |-> k, n |-> (IF k = "select" THEN n ELSE 0), tag |-> tag,
               params |-> Len(a)],
      args |-> a, name |-> <<>>, portal |-> <<>>] :
        k \in Kinds, n \in 1..MaxRows, a \in {<<>>, <<1>>}}

\* Client.connect()
Connect ==
    /\ harness.socket = "idle"
    /\ client' = [client EXCEPT !.connecting = TRUE]
    /\ harness' = [harness EXCEPT !.socket = "connecting"]
    /\ UNCHANGED <<outgoing, sent, wire, results, iterators, log, events,
                   fault, server>>

\* the socket's 'connect' handler
OnConnect ==
    /\ harness.socket = "connecting"
    /\ SetWorld(writeNow([World(FALSE) EXCEPT !.client.closed = FALSE],
                         Request("startup", <<>>, <<>>, NoText)))
    /\ harness' = [harness EXCEPT !.socket = "open"]
    /\ UNCHANGED <<wire, fault, server>>

\* Client.execute(query); `full` says whether the socket reports a full
\* write buffer during the call
Execute(query, full) ==
    /\ SetWorld(execute(World(full), query))
    /\ harness' = [harness EXCEPT !.issued = Append(@, query),
                                  !.pipelined = @ /\ ~harness.responses]
    /\ UNCHANGED <<wire, fault, server>>

\* the socket's 'drain' handler
Drain(full) ==
    /\ client.mustDrain
    /\ SetWorld(flush([World(full) EXCEPT !.client.mustDrain = FALSE]))
    /\ UNCHANGED <<wire, fault, server, harness>>

\* the socket's 'data' handler takes the next n bytes in flight (a 'data'
\* event never carries an empty chunk); `seen` is the driver's record with
\* what it notes of the chunk
DataSeen(n, full, seen) ==
    /\ n \in 1..Len(wire)
    /\ LET Handled(r) ==
            /\ SetWorld(r.w)
            /\ fault' = IF r.thrown # NoError THEN r.thrown ELSE fault
            /\ harness' = [seen EXCEPT
                    !.received = @ + n,
                    !.consumed = @ + r.read,
                    !.responses = TRUE,
                    !.split = @ \/ r.w.client.remaining > 0,
                    !.midrow = @ \/ (r.w.client.remaining > 0
                                      /\ r.w.client.activeDataHandlerInfo # Null),
                    !.grown = @ \/ (/\ client.buffer # Null
                                     /\ client.remaining # 0
                                     /\ Len(Get(client.buffer)) - client.offset
                                            - client.remaining < n)]
       IN  Handled(onSocketData(World(full), SubSeq(wire, 1, n)))
    /\ wire' = SubSeq(wire, n + 1, Len(wire))
    /\ UNCHANGED server

Data(n, full) == DataSeen(n, full, harness)

\* the server answers the next batch of requests
ServerStep ==
    /\ sent # <<>>
    /\ LET Answered(n, sv) ==
            /\ server' = sv
            /\ wire' = wire \o sv.out
            /\ sent' = SubSeq(sent, n + 1, Len(sent))
       IN  Answered(Len(FirstBatch(sent)),
                    Serve([server EXCEPT !.out = <<>>], FirstBatch(sent)))
    /\ UNCHANGED <<client, outgoing, results, iterators, log, events, fault,
                   harness>>

\* the length of the frame that starts a sequence of bytes
FirstFrameLength(bytes) ==
    IF Len(bytes) < 5 THEN Len(bytes) ELSE readInt32BE(bytes, 1) + 1

\* the chunks of the pipelined runs: all that is in flight, or its first
\* frame
CoarseCuts == {Len(wire), FirstFrameLength(wire)}

----------------------------------------------------------------------------
(* Pipelined queries against the server, on a connection that is open: the *)
(* initial state is the one the client is in once it has connected and     *)
(* taken the server's greeting.                                            *)

Greeted ==
    RunTicks(onSocketData(
        [client |-> [NewClient EXCEPT !.connecting = TRUE, !.closed = FALSE],
         outgoing |-> <<>>, sent |-> <<>>, results |-> <<>>,
         iterators |-> <<>>, log |-> <<>>, events |-> <<>>, ticks |-> <<>>,
         sockFull |-> FALSE, sends |-> <<>>],
        GreetingFrames).w)

InitPipe ==
    /\ client = Greeted.client
    /\ outgoing = <<>>
    /\ sent = <<>>
    /\ wire = <<>>
    /\ results = <<>>
    /\ iterators = <<>>
    /\ log = <<>>
    /\ events = Greeted.events
    /\ fault = NoError
    /\ server = NewServer
    /\ harness = [socket |-> "open", scenario |-> 0, issued |-> <<>>,
                  received |-> Len(GreetingFrames),
                  consumed |-> Len(GreetingFrames), responses |-> FALSE,
                  pipelined |-> TRUE, split |-> FALSE, midrow |-> FALSE,
                  grown |-> FALSE]

PipeExecute ==
    /\ Len(results) < MaxQueries
    /\ \E query \in Queries(Len(results) + 1), full \in BOOLEAN :
         Execute(query, full)

PipeData == \E n \in CoarseCuts, full \in BOOLEAN : Data(n, full)

PipeDrain == \E full \in BOOLEAN : Drain(full)

NextPipe == PipeExecute \/ ServerStep \/ PipeData \/ PipeDrain

SpecPipe == InitPipe /\ [][NextPipe]_vars

----------------------------------------------------------------------------
(* A fixed stream fed in chunks: the queries of a scenario are issued, and *)
(* then the bytes of its stream arrive split at any boundaries.            *)
(*                                                                         *)
(* Scenario 1 is one query for the rows (1, a), (2, b), (3, c) of the      *)
(* table with the fields id and name.  Scenario 2 is the server's          *)
(* greeting, a notice, a statement that yields no data, a query with an    *)
(* argument and a statement the server rejects.                            *)
(***************************************************************************)

Scenarios == {1, 2}

Query(kind, n, tag, args) ==
    [text |-> [kind |-> kind, n |-> n, tag |-> tag, params |-> Len(args)],
     args |-> args, name |-> <<>>, portal |-> <<>>]

ScenarioQueries(s) ==
    IF s = 1 THEN <<Query("select", 3, 0, <<>>)>>
    ELSE <<Query("update", 0, 1, <<>>), Query("select", 1, 2, <<7>>),
           Query("bad", 0, 3, <<>>)>>

\* the requests the client writes in a scenario, in the order in which the
\* server takes them
ScenarioRequests(s) ==
    IF s = 1 THEN PlainRequests(ScenarioQueries(1)[1])
    ELSE PlainRequests(ScenarioQueries(2)[1])
            \o PrepareRequests(<<0>>, ScenarioQueries(2)[2])
            \o BindRequests([name |-> <<0>>, portal |-> <<>>])
            \o PlainRequests(ScenarioQueries(2)[3])

ScenarioStream(s) ==
    (IF s = 1 THEN <<>> ELSE GreetingFrames \o NoticeFrame)
        \o Serve(NewServer, ScenarioRequests(s)).out

InitChunk ==
    /\ client = NewClient
    /\ outgoing = <<>>
    /\ sent = <<>>
    /\ results = <<>>
    /\ iterators = <<>>
    /\ log = <<>>
    /\ events = <<>>
    /\ fault = NoError
    /\ server = NewServer
    /\ \E s \in Scenarios :
         /\ wire = ScenarioStream(s)
         /\ harness = [socket |-> "open", scenario |-> s, issued |-> <<>>,
                       received |-> 0, consumed |-> 0, responses |-> FALSE,
                       pipelined |-> TRUE, split |-> FALSE, midrow |-> FALSE,
                  grown |-> FALSE]

\* the queries of the scenario are issued in order
ChunkExecute ==
    /\ Len(results) < Len(ScenarioQueries(harness.scenario))
    /\ \E full \in BOOLEAN :
         Execute(ScenarioQueries(harness.scenario)[Len(results) + 1], full)

\* the stream arrives once the queries are issued, in chunks of any size up
\* to MaxChunk or all at once
ChunkData ==
    /\ Len(results) = Len(ScenarioQueries(harness.scenario))
    /\ \E n \in (1..MaxChunk) \cup {Len(wire)}, full \in BOOLEAN : Data(n, full)

ChunkDrain == \E full \in BOOLEAN : Drain(full)

NextChunk == ChunkExecute \/ ChunkData \/ ChunkDrain

SpecChunk == InitChunk /\ [][NextChunk]_vars

----------------------------------------------------------------------------
(* The same stream in one chunk: the run the chunked runs are held to.     *)
(***************************************************************************)

IsPrefix(s, t) == Len(s) <= Len(t) /\ s = SubSeq(t, 1, Len(s))

Blank ==
    [client |-> NewClient, outgoing |-> <<>>, sent |-> <<>>, results |-> <<>>,
     iterators |-> <<>>, log |-> <<>>, events |-> <<>>, ticks |-> <<>>,
     sockFull |-> FALSE, sends |-> <<>>]

RECURSIVE executeAll(_, _)
executeAll(w, queries) ==
    IF queries = <<>> THEN w
    ELSE executeAll(RunTicks(execute(w, Head(queries))), Tail(queries))

\* the world after the queries of scenario s are issued and its whole stream
\* arrives in a single 'data' event
WholeRun(s) ==
    RunTicks(onSocketData(executeAll(Blank, ScenarioQueries(s)),
                          ScenarioStream(s)).w)

\* the events emitted while a frame is dispatched; 'connect' is emitted
\* from process.nextTick, after the 'data' handler has returned
Dispatched(evs) == SelectSeq(evs, LAMBDA e : e.name # "connect")

Count(evs, name) == Len(SelectSeq(evs, LAMBDA e : e.name = name))

\* the whole stream of the scenario has arrived
ChunkDone ==
    /\ harness.scenario \in Scenarios
    /\ Len(results) = Len(ScenarioQueries(harness.scenario))
    /\ harness.received = Len(ScenarioStream(harness.scenario))

\* C1 (as stated): however the stream is split into chunks, the handlers
\* are called with the same values in the same order and the same events
\* are emitted in the same order as when it arrives in one chunk.
C1_SameDeliveriesAndEvents ==
    LET Same(whole) == log = whole.log /\ events = whole.events
    IN  ChunkDone => Same(WholeRun(harness.scenario))

\* C1 (amended): however the stream is split into chunks, no 'data' handler
\* throws, the handlers are called with the same values in the same order
\* as when it arrives in one chunk, the events emitted while frames are
\* dispatched are the same in the same order, and 'connect' is emitted as
\* often; at every moment the calls and those events so far are a prefix
\* of the one-chunk run's.
C1_ChunkInvariance ==
    LET Same(whole) ==
            /\ fault = NoError
            /\ IsPrefix(log, whole.log)
            /\ IsPrefix(Dispatched(events), Dispatched(whole.events))
            /\ ChunkDone =>
                 /\ log = whole.log
                 /\ Dispatched(events) = Dispatched(whole.events)
                 /\ Count(events, "connect") = Count(whole.events, "connect")
    IN  harness.scenario \in Scenarios => Same(WholeRun(harness.scenario))

\* the stream of scenario 2 has arrived whole, after a chunk ended inside a
\* frame and a chunk ended inside a row
C1_Witness ==
    /\ ChunkDone
    /\ harness.scenario = 2
    /\ harness.split
    /\ harness.midrow
    /\ Len(log) > 0
    /\ Count(events, "connect") = 1

\* the calls of the data handler of query q, in order
DataCalls(q) == SelectSeq(log, LAMBDA e : e.to = q /\ e.kind # "names")

\* the rows among the first calls of a sequence, up to its first end
RECURSIVE RowsBeforeEnd(_)
RowsBeforeEnd(calls) ==
    IF calls = <<>> \/ Head(calls).kind = "end" THEN <<>>
    ELSE <<Head(calls).val>> \o RowsBeforeEnd(Tail(calls))

HasEnd(calls) == \E i \in 1..Len(calls) : calls[i].kind = "end"

\* the names the name handler of query q was last called with, [] if never
NamesDelivered(q) ==
    LET calls == SelectSeq(log, LAMBDA e : e.to = q /\ e.kind = "names")
    IN  IF calls = <<>> THEN <<>> ELSE calls[Len(calls)].val

\* the result of the query of scenario 1
ScenarioResult ==
    [names |-> <<<<105, 100>>, <<110, 97, 109, 101>>>>,
     rows |-> <<<<[oid |-> TypeInt4, v |-> <<1>>], [oid |-> TypeText, v |-> <<97>>]>>,
                <<[oid |-> TypeInt4, v |-> <<2>>], [oid |-> TypeText, v |-> <<98>>]>>,
                <<[oid |-> TypeInt4, v |-> <<3>>], [oid |-> TypeText, v |-> <<99>>]>>>>]

\* C5: the promise of a result is resolved exactly when its data handler has
\* been called with the sentinel, and the value it resolved to has the rows
\* the handler was called with before the first sentinel, in that order;
\* for the stream of scenario 1 the value is names [id, name] and rows
\* (1, a), (2, b), (3, c), however the stream is split.
C5_AwaitSnapshot ==
    \A q \in 1..Len(results) :
        /\ results[q].settled # Null <=> HasEnd(DataCalls(q))
        /\ results[q].settled # Null =>
             /\ Resolved(results[q]).rows = RowsBeforeEnd(DataCalls(q))
             /\ harness.scenario = 1 => Resolved(results[q]) = ScenarioResult

\* the promise of scenario 1 is resolved after a chunk ended inside a row
C5_Witness ==
    /\ harness.scenario = 1
    /\ harness.midrow
    /\ results # <<>>
    /\ results[1].settled # Null
    /\ Len(Resolved(results[1]).rows) = 3

\* C9: the values receive() returned never sum to more than the bytes
\* received, the bytes not yet consumed are the client's `remaining`, and
\* once the whole stream has arrived the sum is the length of the stream
\* and `remaining` is 0.
C9_ConsumptionConservation ==
    harness.scenario \in Scenarios =>
        /\ harness.consumed <= harness.received
        /\ client.remaining = harness.received - harness.consumed
        /\ ChunkDone =>
             /\ harness.consumed = Len(ScenarioStream(harness.scenario))
             /\ client.remaining = 0

\* the whole stream has been consumed after a chunk ended inside a frame
C9_Witness ==
    /\ ChunkDone
    /\ harness.split
    /\ harness.consumed = Len(ScenarioStream(harness.scenario))
    /\ harness.consumed > 0

----------------------------------------------------------------------------
(* Pipelined queries.                                                      *)
(***************************************************************************)

Issued(q) == harness.issued[q]

Kind(q) == Issued(q).text.kind

IssuedKinds == {Kind(q) : q \in 1..Len(harness.issued)}

NoArguments == \A q \in 1..Len(harness.issued) : Issued(q).args = <<>>

\* the server ran the statements in the order in which they were issued
InOrder == \A i \in 1..Len(server.executed) : server.executed[i] = i

\* every request is answered and every answer is processed
Quiescent ==
    /\ wire = <<>>
    /\ sent = <<>>
    /\ outgoing = <<>>
    /\ client.remaining = 0

Ended(q) == HasEnd(DataCalls(q))

\* the query a row comes from: the rows of table t are t1, t2, ...
RowSource(row) ==
    IF row[1].oid = TypeInt4 THEN row[1].v[1] \div 10 ELSE row[1].v[1] - 48

\* C2: when the queries issued all yield rows and the server has answered
\* them in the order of issue, each result has received rows of its own
\* query only, in their order: a prefix of them, all of them once its stream
\* has ended, and every stream has ended once all answers are processed.
C2_FifoCorrectness ==
    (IssuedKinds \subseteq {"select"} /\ InOrder) =>
        \A q \in 1..Len(results) :
            /\ IsPrefix(results[q].rows, ExpectedRows(Issued(q).text))
            /\ RowsBeforeEnd(DataCalls(q)) = results[q].rows
            /\ Ended(q) => results[q].rows = ExpectedRows(Issued(q).text)
            /\ Quiescent => Ended(q)

\* MaxQueries queries with different numbers of rows were issued before any
\* response arrived, and each has received all its rows
C2_Witness ==
    /\ Len(harness.issued) = MaxQueries
    /\ harness.pipelined
    /\ IssuedKinds \subseteq {"select"}
    /\ InOrder
    /\ \A q \in 1..Len(results) :
         Ended(q) /\ results[q].rows = ExpectedRows(Issued(q).text)
    /\ Len(results[1].rows) # Len(results[2].rows)

\* C3: of two queries issued in order, with or without arguments, every row
\* and the end of the stream of the earlier one are delivered before any
\* row of the later one, and no row is delivered to the consumer of another
\* query.
C3_PipeliningOrder ==
    IssuedKinds \subseteq {"select"} =>
        \A i \in 1..Len(log) :
            log[i].kind = "row" =>
                /\ RowSource(log[i].val) = log[i].to
                /\ \A n \in 1..(RowSource(log[i].val) - 1) :
                     \E j \in 1..(i - 1) : log[j].to = n /\ log[j].kind = "end"

\* C4: the promise of a query answered with a row description resolves to
\* the field names of that row description, whatever queries came before,
\* those answered with "no data" included.
C4_NamesAlignment ==
    (NoArguments /\ IssuedKinds \subseteq {"select", "update"}) =>
        \A q \in 1..Len(results) :
            (HasRowDescription(Issued(q).text) /\ results[q].settled # Null) =>
                Resolved(results[q]).names = FieldNames(Issued(q).text)

\* C6: a query answered with "no data" has its stream ended with no rows
\* and no fault once its answer is processed.
C6_NoDataCompletes ==
    (NoArguments /\ IssuedKinds \subseteq {"update", "bad"} /\ Quiescent) =>
        /\ fault = NoError
        /\ \A q \in 1..Len(results) :
             Kind(q) = "update" => Ended(q) /\ results[q].rows = <<>>

\* C10: an Error frame is one 'error' event and no fault, and the queries
\* after the one it answers receive their rows and the end of their stream.
C10_ErrorRecoverable ==
    (NoArguments /\ IssuedKinds \subseteq {"select", "bad"}) =>
        /\ fault = NoError
        /\ Count(events, "error") <= Len(SelectSeq(harness.issued,
                                          LAMBDA query : query.text.kind = "bad"))
        /\ \A q \in 1..Len(results) :
             Kind(q) = "select" =>
                /\ IsPrefix(results[q].rows, ExpectedRows(Issued(q).text))
                /\ Quiescent =>
                     Ended(q) /\ results[q].rows = ExpectedRows(Issued(q).text)

----------------------------------------------------------------------------
(* The async iterators of a result.  An iterator is [q, i, pull, wait,     *)
(* out, ended, late, suspended]: the result it reads, its cursor, the      *)
(* number of its pulls that suspended, the state of its suspended pull     *)
(* ("none" when no pull is suspended, "pending" while the promise is       *)
(* unsettled, "true" or "false" once a subscriber call settled it and the  *)
(* pull waits to run on), what its pulls returned, whether one returned    *)
(* completion, whether it was made after the stream had ended, and         *)
(* whether a pull of it ever suspended.                                    *)
(***************************************************************************)

\* ResultIterator[Symbol.asyncIterator]() of result q
NewIterator(q) ==
    /\ Len(iterators) < MaxIterators
    /\ q \in 1..Len(results)
    /\ iterators' = Append(iterators,
            [q |-> q, i |-> 0, pull |-> 0, wait |-> "none", out |-> <<>>,
             ended |-> FALSE, late |-> Ended(q), suspended |-> FALSE])
    /\ UNCHANGED <<client, outgoing, sent, wire, results, log, events, fault,
                   server, harness>>

\* next() of iterator k, up to its return or its await; the consumer has
\* no other pull outstanding
Pull(k) ==
    /\ k \in 1..Len(iterators)
    /\ iterators[k].wait = "none"
    /\ LET it == iterators[k]
           res == results[it.q]
       IN  IF Len(res.rows) <= it.i
           THEN IF res.done
                THEN /\ iterators' = [iterators EXCEPT ![k].ended = TRUE]
                     /\ UNCHANGED results
                ELSE /\ iterators' = [iterators EXCEPT ![k].pull = @ + 1,
                                                       ![k].wait = "pending",
                                                       ![k].suspended = TRUE]
                     /\ results' = [results EXCEPT ![it.q].subscribers =
                                        Append(@, <<k, it.pull + 1>>)]
           ELSE /\ iterators' = [iterators EXCEPT
                                    ![k].out = Append(@, res.rows[it.i + 1]),
                                    ![k].i = @ + 1]
                /\ UNCHANGED results
    /\ UNCHANGED <<client, outgoing, sent, wire, log, events, fault, server,
                   harness>>

\* next() of iterator k runs on after its await
Resume(k) ==
    /\ k \in 1..Len(iterators)
    /\ iterators[k].wait \in {"true", "false"}
    /\ LET it == iterators[k]
       IN  IF it.wait = "true"
           THEN iterators' = [iterators EXCEPT ![k].wait = "none",
                                               ![k].ended = TRUE]
           ELSE iterators' = [iterators EXCEPT
                                ![k].wait = "none",
                                ![k].out = Append(@, results[it.q].rows[it.i + 1]),
                                ![k].i = @ + 1]
    /\ UNCHANGED <<client, outgoing, sent, wire, results, log, events, fault,
                   server, harness>>

IterExecute ==
    /\ Len(results) < MaxIterQueries
    /\ \E query \in Queries(Len(results) + 1), full \in BOOLEAN :
         Execute(query, full)

IterData == \E n \in CoarseCuts, full \in BOOLEAN : Data(n, full)

IterDrain == \E full \in BOOLEAN : Drain(full)

IterNew == \E q \in 1..MaxIterQueries : NewIterator(q)

IterPull == \E k \in 1..MaxIterators : Pull(k)

IterResume == \E k \in 1..MaxIterators : Resume(k)

NextIter ==
    \/ IterExecute
    \/ ServerStep
    \/ IterData
    \/ IterDrain
    \/ IterNew
    \/ IterPull
    \/ IterResume

SpecIter == InitPipe /\ [][NextIter]_vars

\* C7: what the pulls of an iterator have returned is a prefix of the rows
\* its result's data handler was called with before the sentinel, in that
\* order, one row per pull; a pull returns completion only once all of
\* them were returned and the sentinel was delivered; a pull that was
\* resumed with a row has that row to return; and the promise of the same
\* result is resolved as if no iterator were there.
C7_IterationExactlyOnce ==
    \A k \in 1..Len(iterators) :
        LET it == iterators[k]
            delivered == RowsBeforeEnd(DataCalls(it.q))
        IN  /\ it.i = Len(it.out)
            /\ IsPrefix(it.out, delivered)
            /\ it.ended => Ended(it.q) /\ it.out = delivered
            /\ it.wait = "false" => Len(delivered) > it.i
            /\ it.wait = "true" => Ended(it.q) /\ it.out = delivered
            /\ results[it.q].settled # Null <=> Ended(it.q)
            /\ results[it.q].settled # Null =>
                 Resolved(results[it.q]).rows = delivered

\* two iterators of one result have returned its rows, more than one, and
\* completion, one of them after a pull of it was suspended, and the promise
\* of the result is resolved
C7_Witness ==
    /\ Len(iterators) = 2
    /\ iterators[1].q = iterators[2].q
    /\ \A k \in 1..2 :
         /\ iterators[k].ended
         /\ iterators[k].out = results[iterators[k].q].rows
         /\ Len(iterators[k].out) > 1
    /\ iterators[1].suspended
    /\ results[iterators[1].q].settled # Null

\* C8: once the sentinel was delivered to a result, no pull of any of its
\* iterators is suspended, a pull that was suspended is resumed with
\* completion or, when a row had resumed it before, with that row, and no
\* pull of an iterator made afterwards ever suspends: what such an
\* iterator returns is the rows and then completion.
C8_CompletionIdempotence ==
    \A k \in 1..Len(iterators) :
        LET it == iterators[k]
        IN  /\ Ended(it.q) => results[it.q].done /\ it.wait # "pending"
            /\ it.late => ~it.suspended /\ it.wait = "none"
            /\ (it.late /\ it.ended) =>
                 it.out = RowsBeforeEnd(DataCalls(it.q))

\* an iterator made after the sentinel has returned completion, and a pull
\* of another iterator that was suspended has been resumed with completion
C8_Witness ==
    /\ Len(iterators) = 2
    /\ iterators[1].q = iterators[2].q
    /\ iterators[2].late
    /\ iterators[2].ended
    /\ iterators[1].suspended
    /\ iterators[1].ended
    /\ iterators[1].out = <<>>

----------------------------------------------------------------------------
(* Frames no query asked for.  The driver makes up the payload of an error *)
(* or notice, a sequence of up to MaxFields fields, each with one of the   *)
(* tags 'V', 'C', 'M' and 'H' and a value that is empty or the one letter  *)
(* that tells its position; it then injects whole frames, one per 'data'   *)
(* event: an error or a notice with that payload, a row, "no data", a row  *)
(* description or a Close.  Its record has, besides the fields of the      *)
(* other drivers, [probe, injected, lastThrown, logBefore, eventsBefore,   *)
(* pre]: the payload, the kinds injected, what the last 'data' handler     *)
(* threw, the lengths of log and events before it ran, and the registries  *)
(* it found.                                                               *)
(***************************************************************************)

TagHint == 72

FieldTags == {TagSeverity, TagCode, TagMessage, TagHint}

Probes ==
    UNION {[1..k -> FieldTags \X BOOLEAN] : k \in 0..MaxFields}

\* the fields of a probe as <<tag, value>>
ProbeFields(probe) ==
    [i \in 1..Len(probe) |->
        <<probe[i][1], IF probe[i][2] THEN <<>> ELSE <<119 + i>>>>]

InjectKinds == {"error", "notice", "row", "nodata", "description", "close"}

FaultQuery == Query("select", 1, 1, <<>>)

InjectedFrame(kind, probe) ==
    CASE kind = "error" -> Frame(MsgError, FieldsPayload(ProbeFields(probe)))
      [] kind = "notice" -> Frame(MsgNotice, FieldsPayload(ProbeFields(probe)))
      [] kind = "row" -> RowDataFrame(RowColumns(FaultQuery.text, 1))
      [] kind = "nodata" -> NoDataFrame
      [] kind = "description" ->
            RowDescriptionFrame(FieldNames(FaultQuery.text),
                                FieldTypes(FaultQuery.text))
      [] OTHER -> CommandCompleteFrame

InitFault ==
    /\ client = Greeted.client
    /\ outgoing = <<>>
    /\ sent = <<>>
    /\ wire = <<>>
    /\ results = <<>>
    /\ iterators = <<>>
    /\ log = <<>>
    /\ events = Greeted.events
    /\ fault = NoError
    /\ server = NewServer
    /\ \E probe \in Probes :
         harness = [socket |-> "open", scenario |-> 0, issued |-> <<>>,
                    received |-> Len(GreetingFrames),
                    consumed |-> Len(GreetingFrames), responses |-> FALSE,
                    pipelined |-> TRUE, split |-> FALSE, midrow |-> FALSE,
                    grown |-> FALSE,
                    probe |-> probe, injected |-> <<>>, lastThrown |-> NoError,
                    logBefore |-> 0, eventsBefore |-> Len(Greeted.events),
                    pre |-> [info |-> FALSE, handlers |-> 0, descriptions |-> 0]]

FaultExecute ==
    /\ Len(results) < MaxFaultQueries
    /\ \E full \in BOOLEAN : Execute(FaultQuery, full)

\* the socket's 'data' handler is given one whole frame of the kind
Inject(kind, full) ==
    /\ Len(harness.injected) < MaxInjected
    /\ LET Handled(frame, r) ==
            /\ SetWorld(r.w)
            /\ fault' = IF r.thrown # NoError THEN r.thrown ELSE fault
            /\ harness' = [harness EXCEPT
                    !.received = @ + Len(frame),
                    !.consumed = @ + r.read,
                    !.responses = TRUE,
                    !.injected = Append(@, kind),
                    !.lastThrown = r.thrown,
                    !.logBefore = Len(log),
                    !.eventsBefore = Len(events),
                    !.pre = [info |-> client.activeDataHandlerInfo # Null,
                             handlers |-> Len(client.dataHandlers),
                             descriptions |-> Len(client.rowDescriptions)]]
           Framed(frame) == Handled(frame, onSocketData(World(full), frame))
       IN  Framed(InjectedFrame(kind, harness.probe))
    /\ UNCHANGED <<wire, server>>

FaultInject == \E kind \in InjectKinds, full \in BOOLEAN : Inject(kind, full)

FaultDrain == \E full \in BOOLEAN : Drain(full)

NextFault == FaultExecute \/ FaultInject \/ FaultDrain

SpecFault == InitFault /\ [][NextFault]_vars

\* the probe has a field with the tag
HasField(probe, tag) == \E i \in 1..Len(probe) : probe[i][1] = tag

\* the value of the last field of the probe with the tag
LastValue(probe, tag) ==
    LET i == CHOOSE j \in 1..Len(probe) :
                /\ probe[j][1] = tag
                /\ \A k \in (j + 1)..Len(probe) : probe[k][1] # tag
    IN  ProbeFields(probe)[i][2]

Lacking(probe) ==
    \E tag \in {TagSeverity, TagCode, TagMessage} : ~HasField(probe, tag)

LastInjected == harness.injected[Len(harness.injected)]

\* the events the last 'data' handler emitted
NewEvents == SubSeq(events, harness.eventsBefore + 1, Len(events))

\* C11: an Error or Notice frame whose payload lacks the 'V', the 'C' or
\* the 'M' field makes parseError throw and no event is emitted; a frame
\* that does not make it throw is one event of its kind; and every error
\* or notice event has the three values of those fields of the payload.
C11_MalformedErrorPayload ==
    /\ \A i \in 1..Len(events) :
          events[i].name \in {"error", "notice"} =>
             /\ ~Lacking(harness.probe)
             /\ events[i].a = LastValue(harness.probe, TagSeverity)
             /\ events[i].b = LastValue(harness.probe, TagCode)
             /\ events[i].c = LastValue(harness.probe, TagMessage)
    /\ (harness.injected # <<>> /\ LastInjected \in {"error", "notice"}) =>
          /\ Lacking(harness.probe) =>
                /\ harness.lastThrown = "Unable to parse error message."
                /\ NewEvents = <<>>
          /\ harness.lastThrown = NoError =>
                /\ Len(NewEvents) = 1
                /\ NewEvents[1].name = LastInjected

\* an Error frame with a severity and a code and no message was given to
\* the 'data' handler, which threw
C11_Witness ==
    /\ harness.injected # <<>>
    /\ LastInjected = "error"
    /\ HasField(harness.probe, TagSeverity)
    /\ HasField(harness.probe, TagCode)
    /\ ~HasField(harness.probe, TagMessage)
    /\ harness.lastThrown = "Unable to parse error message."
    /\ NewEvents = <<>>

\* C12: a row or a "no data" frame that finds no delivery context and no
\* data handler makes receive() throw 'Unexpected data received.'; a row
\* that finds no delivery context, a data handler and no row description
\* makes it throw 'Row description expected.'; and neither frame has any
\* handler called.
C12_FatalProtocolViolations ==
    (harness.injected # <<>> /\ ~harness.pre.info) =>
        /\ (LastInjected \in {"row", "nodata"} /\ harness.pre.handlers = 0) =>
              /\ harness.lastThrown = "Unexpected data received."
              /\ fault = "Unexpected data received."
              /\ Len(log) = harness.logBefore
        /\ (LastInjected = "row" /\ harness.pre.handlers > 0
                /\ harness.pre.descriptions = 0) =>
              /\ harness.lastThrown = "Row description expected."
              /\ fault = "Row description expected."
              /\ Len(log) = harness.logBefore

\* a row was given to the 'data' handler while a data handler was
\* registered and no row description, and receive() threw
C12_Witness ==
    /\ harness.injected # <<>>
    /\ LastInjected = "row"
    /\ ~harness.pre.info
    /\ harness.pre.handlers > 0
    /\ harness.pre.descriptions = 0
    /\ fault = "Row description expected."
    /\ log = <<>>


----------------------------------------------------------------------------
(* The life of a connection: the application registers callbacks, connects *)
(* and ends the session while the socket connects, carries the server's    *)
(* greeting, fails, finishes and closes.  The socket is Node's: 'close'    *)
(* comes after 'error' or after 'finish' (the write side is ended by the   *)
(* client, or by the socket itself once the peer has closed), and no       *)
(* 'data' comes after 'close'.  harness.since[e] is the number of events   *)
(* emitted when on(e, cb) was called (-1 before), harness.last is the last *)
(* socket event handled: its kind, errno, whether end() had been called    *)
(* and the events its handler emitted; harness.swallowed says whether an   *)
(* 'error' was handled without an event.                                   *)

EventNames == {"connect", "end", "parameter", "error", "notice"}
MaxListeners == 2
Errnos == {ECONNRESET, EPIPE}

InitEvents ==
    /\ client = NewClient
    /\ outgoing = <<>>
    /\ sent = <<>>
    /\ wire = <<>>
    /\ results = <<>>
    /\ iterators = <<>>
    /\ log = <<>>
    /\ events = <<>>
    /\ fault = NoError
    /\ server = NewServer
    /\ harness = [socket |-> "idle", scenario |-> 0, issued |-> <<>>,
                  received |-> 0, consumed |-> 0, responses |-> FALSE,
                  pipelined |-> TRUE, split |-> FALSE, midrow |-> FALSE,
                  grown |-> FALSE,
                  since |-> [e \in EventNames |-> -1],
                  last |-> [kind |-> "none", errno |-> 0, ending |-> FALSE,
                            emitted |-> <<>>],
                  swallowed |-> FALSE]

\* the application registers a callback, once for an event
EventsOn ==
    \E event \in EventNames :
        /\ harness.since[event] < 0
        /\ Cardinality({e \in EventNames : harness.since[e] >= 0}) < MaxListeners
        /\ client' = on(World(FALSE), event).client
        /\ harness' = [harness EXCEPT !.since[event] = Len(events)]
        /\ UNCHANGED <<outgoing, sent, wire, results, iterators, log, events,
                       fault, server>>

EventsConnect == harness.since \in [EventNames -> Int] /\ Connect

EventsOnConnect == harness.since \in [EventNames -> Int] /\ OnConnect

EventsServer == harness.socket \in {"open", "finished"} /\ ServerStep

EventsData ==
    /\ harness.socket \in {"open", "finished"}
    /\ \E n \in CoarseCuts, full \in BOOLEAN : Data(n, full)

EventsDrain ==
    /\ harness.socket = "open"
    /\ \E full \in BOOLEAN : Drain(full)

\* the application ends the session; it does so again only to find the
\* connection closed
EventsEnd ==
    /\ ~client.ending \/ client.closed
    /\ \E full \in BOOLEAN :
        LET Ended_(r) ==
                /\ SetWorld(r.w)
                /\ fault' = IF r.thrown # NoError THEN r.thrown ELSE fault
        IN  Ended_(end(World(full)))
    /\ UNCHANGED <<wire, server, harness>>

\* what a handler of the socket emitted
Emitted(w) == SubSeq(w.events, Len(events) + 1, Len(w.events))

SocketError ==
    /\ harness.socket \in {"connecting", "open", "finished"}
    /\ \E errno \in Errnos :
        LET Handled(w) ==
                /\ SetWorld(w)
                /\ harness' = [harness EXCEPT
                        !.socket = "errored",
                        !.last = [kind |-> "error", errno |-> errno,
                                  ending |-> client.ending,
                                  emitted |-> Emitted(w)],
                        !.swallowed = @ \/ Emitted(w) = <<>>]
        IN  Handled(onSocketError(World(FALSE), errno))
    /\ UNCHANGED <<wire, fault, server>>

SocketFinish ==
    /\ harness.socket = "open"
    /\ LET Handled(w) ==
            /\ SetWorld(w)
            /\ harness' = [harness EXCEPT
                    !.socket = "finished",
                    !.last = [kind |-> "finish", errno |-> 0,
                              ending |-> client.ending,
                              emitted |-> Emitted(w)]]
       IN  Handled(onSocketFinish(World(FALSE)))
    /\ UNCHANGED <<wire, fault, server>>

SocketClose ==
    /\ harness.socket \in {"errored", "finished"}
    /\ LET Handled(w) ==
            /\ SetWorld(w)
            /\ harness' = [harness EXCEPT
                    !.socket = "closed",
                    !.last = [kind |-> "close", errno |-> 0,
                              ending |-> client.ending,
                              emitted |-> Emitted(w)]]
       IN  Handled(onSocketClose(World(FALSE)))
    /\ UNCHANGED <<wire, fault, server>>

NextEvents ==
    \/ EventsOn
    \/ EventsConnect
    \/ EventsOnConnect
    \/ EventsServer
    \/ EventsData
    \/ EventsDrain
    \/ EventsEnd
    \/ SocketError
    \/ SocketFinish
    \/ SocketClose

SpecEvents == InitEvents /\ [][NextEvents]_vars

\* the events emitted after on(name, cb) was called
Since(name) ==
    SelectSeq(SubSeq(events, harness.since[name] + 1, Len(events)),
              LAMBDA e : e.name = name)

\* C13: a callback registered with on('parameter', cb) is invoked for every
\* Parameter status frame dispatched after the registration, that is, with
\* every parameter event emitted since.
C13_ParameterCallback ==
    harness.since["parameter"] >= 0 =>
        \A i \in 1..Len(Since("parameter")) : Since("parameter")[i].heard


\* whether an event is the end event
IsEnd(e) == e.name = "end"

\* C14: the 'error' handler emits the end event and nothing else, unless
\* end() has been called and the error is ECONNRESET, when it emits nothing;
\* the 'finish' handler, which runs whenever the socket closes without an
\* error, marks the connection closed and emits the end event; the 'close'
\* handler itself emits nothing and leaves the client not ready, so that once
\* the socket has closed the end event has been emitted unless a reset
\* during the shutdown was swallowed.
C14_TransportFaults ==
    LET last == harness.last IN
    /\ last.kind = "error" =>
        IF last.ending /\ last.errno = ECONNRESET
        THEN last.emitted = <<>>
        ELSE Len(last.emitted) = 1 /\ IsEnd(last.emitted[1])
    /\ last.kind = "finish" =>
        /\ Len(last.emitted) = 1 /\ IsEnd(last.emitted[1])
        /\ client.closed
    /\ last.kind = "close" => last.emitted = <<>> /\ ~client.ready
    /\ harness.socket = "closed" =>
        Count(events, "end") >= 1 \/ harness.swallowed
    /\ \A i \in 1..Len(events) :
        IsEnd(events[i]) => events[i].heard = (harness.since["end"] \in 0..(i - 1))

\* the socket failed with another error than a reset after end() and
\* closed, and the callback registered for the end event was called
C14_Witness ==
    /\ harness.socket = "closed"
    /\ harness.since["end"] >= 0
    /\ client.ending
    /\ ~harness.swallowed
    /\ \E i \in 1..Len(events) : IsEnd(events[i]) /\ events[i].heard


----------------------------------------------------------------------------
(* The reassembly buffer.                                                  *)

\* the bytes received that no receive() call has consumed
Unconsumed ==
    SubSeq(ScenarioStream(harness.scenario), harness.consumed + 1,
           harness.received)

\* the bytes of the buffer from the offset on, `remaining` of them
Unread ==
    SubSeq(Get(client.buffer), client.offset + 1,
           client.offset + client.remaining)

\* C15: after every 'data' event that completes without a fault,
\* offset + remaining <= buffer.length and the bytes of the buffer at
\* [offset, offset + remaining) are the bytes received and not yet consumed,
\* in stream order.
C15_ReassemblyInvariant ==
    (harness.scenario \in Scenarios /\ harness.responses /\ fault = NoError) =>
        /\ client.buffer # Null
        /\ client.offset + client.remaining <= Len(Get(client.buffer))
        /\ Unread = Unconsumed

\* unread bytes were copied to a new buffer from an offset past its start,
\* and the chunk appended to them left a frame incomplete again
C15_Witness ==
    /\ harness.scenario \in Scenarios
    /\ harness.grown
    /\ fault = NoError
    /\ client.offset > 0
    /\ client.remaining > 0
    /\ Unread = Unconsumed


\* the total length, header included, of the frame a sequence of at least
\* five bytes starts with
FrameLength(bytes) == readInt32BE(bytes, 1) + 1

\* C16: when a 'data' event returns, remaining < expect, where expect is 5
\* if fewer than 5 bytes of the next frame are buffered and otherwise the
\* total length of the incomplete frame at the cursor; hence no complete
\* frame is left in the buffer.
C16_NoFrameLeftWaiting ==
    (harness.scenario \in Scenarios /\ harness.responses /\ fault = NoError) =>
        /\ client.remaining < client.expect
        /\ client.expect =
              IF client.remaining < 5 THEN 5 ELSE FrameLength(Unread)
        /\ client.remaining >= 5 => client.remaining < FrameLength(Unread)

\* a chunk ended inside a row whose header was complete, and one inside the
\* header of a frame
C16_Witness ==
    /\ harness.scenario \in Scenarios
    /\ harness.midrow
    /\ fault = NoError
    /\ client.remaining >= 5
    /\ client.expect = FrameLength(Unread)
    /\ client.expect > client.remaining


----------------------------------------------------------------------------
(* The registries of pending queries.                                      *)

\* the queries issued with arguments
WithArguments == SelectSeq(harness.issued, LAMBDA query : query.args # <<>>)

\* C17: every context pushed by execute() for a query with arguments is
\* popped exactly once, in issue order, by the Parameter description frame
\* that answers that query: the registry holds contexts of the last queries
\* issued with arguments only, and none once every answer is processed,
\* whether or not an earlier query was answered by an Error frame.
C17_PreparedStatementsMatched ==
    /\ \A i \in 1..Len(client.preparedStatements) :
          client.preparedStatements[i].name =
              <<Len(WithArguments) - Len(client.preparedStatements) + i - 1>>
    /\ Quiescent => client.preparedStatements = <<>>


----------------------------------------------------------------------------
(* One frame in small pieces: the client has issued a query and taken its  *)
(* row description, and one frame arrives in pieces of 1..MaxPiece bytes.  *)

MaxPiece == 3

FrameKinds == {"notice", "error", "parameter", "row"}

FrameOf(kind) ==
    CASE kind = "notice" -> NoticeFrame
      [] kind = "error" -> ErrorFrame
      [] kind = "parameter" ->
            Frame(MsgParameterStatus, CString(<<116, 122>>) \o CString(<<85>>))
      [] OTHER -> RowDataFrame(RowColumns(FaultQuery.text, 1))

\* the client once the row description of its query is processed
Described ==
    RunTicks(onSocketData(
        [execute([Greeted EXCEPT !.sockFull = FALSE], FaultQuery)
            EXCEPT !.outgoing = <<>>, !.sent = <<>>],
        RowDescriptionFrame(FieldNames(FaultQuery.text),
                            FieldTypes(FaultQuery.text))).w)

InitFrame ==
    /\ client = Described.client
    /\ outgoing = <<>>
    /\ sent = <<>>
    /\ results = Described.results
    /\ iterators = <<>>
    /\ log = Described.log
    /\ events = Described.events
    /\ fault = NoError
    /\ server = NewServer
    /\ \E kind \in FrameKinds :
         /\ wire = FrameOf(kind)
         /\ harness = [socket |-> "open", scenario |-> 0,
                       issued |-> <<FaultQuery>>, received |-> 0,
                       consumed |-> 0, responses |-> FALSE, pipelined |-> TRUE,
                       split |-> FALSE, midrow |-> FALSE, grown |-> FALSE,
                       frame |-> FrameOf(kind), pieces |-> {}]

\* the next piece of the frame arrives
FramePiece ==
    \E n \in 1..MaxPiece :
        DataSeen(n, FALSE, [harness EXCEPT !.pieces = @ \cup {n}])

NextFrame == FramePiece

SpecFrame == InitFrame /\ [][NextFrame]_vars

\* the handler calls and events the frame has led to
Dispatches ==
    (Len(log) - Len(Described.log)) + (Len(events) - Len(Described.events))

\* C18: a frame of F bytes delivered in pieces of small varying sizes is
\* dispatched once, with the piece that holds its last byte, and the
\* reassembly buffer is never longer than F plus the size of one piece.
C18_BufferGrowthBounded ==
    harness.responses =>
        /\ fault = NoError
        /\ Len(Get(client.buffer)) <= Len(harness.frame) + MaxPiece
        /\ Dispatches = IF harness.received = Len(harness.frame) THEN 1 ELSE 0

\* the frame is dispatched after pieces of every size, appended to unread
\* bytes in a new buffer
C18_Witness ==
    /\ harness.received = Len(harness.frame)
    /\ harness.pieces = 1..MaxPiece
    /\ harness.grown
    /\ Dispatches = 1
    /\ client.remaining = 0


----------------------------------------------------------------------------
(* Outbound backpressure: queries are issued on a socket that connects,    *)
(* carries the server's answers, reports a full write buffer at times,     *)
(* drains and closes.  harness.last is the last handler run: its name, the *)
(* calls of writer.send() it made and the pending-drain flag it started    *)
(* with.                                                                   *)

MaxDrainQueries == 2

DrainQueries(tag) == {Query("select", 1, tag, args) : args \in {<<>>, <<7>>}}

InitDrain ==
    /\ client = [NewClient EXCEPT !.connecting = TRUE]
    /\ outgoing = <<>>
    /\ sent = <<>>
    /\ wire = <<>>
    /\ results = <<>>
    /\ iterators = <<>>
    /\ log = <<>>
    /\ events = <<>>
    /\ fault = NoError
    /\ server = NewServer
    /\ harness = [socket |-> "connecting", issued |-> <<>>,
                  last |-> [handler |-> "none", sends |-> <<>>,
                            pending |-> FALSE]]

\* a handler has run: w is the world it leaves
Ran(handler, w, socket) ==
    /\ SetWorld(w)
    /\ harness' = [harness EXCEPT
            !.socket = socket,
            !.last = [handler |-> handler, sends |-> w.sends,
                      pending |-> client.mustDrain]]

DrainOnConnect ==
    /\ harness.socket = "connecting"
    /\ Ran("connect",
           writeNow([World(FALSE) EXCEPT !.client.closed = FALSE],
                    Request("startup", <<>>, <<>>, NoText)),
           "open")
    /\ UNCHANGED <<wire, fault, server>>

DrainExecute ==
    /\ Len(results) < MaxDrainQueries
    /\ \E query \in DrainQueries(Len(results) + 1), full \in BOOLEAN :
        /\ SetWorld(execute(World(full), query))
        /\ harness' = [harness EXCEPT
                !.issued = Append(@, query),
                !.last = [handler |-> "execute",
                          sends |-> execute(World(full), query).sends,
                          pending |-> client.mustDrain]]
    /\ UNCHANGED <<wire, fault, server>>

DrainServer == harness.socket = "open" /\ ServerStep

DrainData ==
    /\ harness.socket = "open"
    /\ \E n \in CoarseCuts, full \in BOOLEAN :
        /\ n \in 1..Len(wire)
        /\ LET Handled(r) ==
                /\ Ran("data", r.w, "open")
                /\ fault' = IF r.thrown # NoError THEN r.thrown ELSE fault
           IN  Handled(onSocketData(World(full), SubSeq(wire, 1, n)))
        /\ wire' = SubSeq(wire, n + 1, Len(wire))
    /\ UNCHANGED server

DrainDrain ==
    /\ harness.socket = "open"
    /\ client.mustDrain
    /\ \E full \in BOOLEAN :
        Ran("drain", flush([World(full) EXCEPT !.client.mustDrain = FALSE]),
            "open")
    /\ UNCHANGED <<wire, fault, server>>

DrainClose ==
    /\ harness.socket = "open"
    /\ Ran("close", onSocketClose(World(FALSE)), "closed")
    /\ UNCHANGED <<wire, fault, server>>

NextDrain ==
    \/ DrainOnConnect
    \/ DrainExecute
    \/ DrainServer
    \/ DrainData
    \/ DrainDrain
    \/ DrainClose

SpecDrain == InitDrain /\ [][NextDrain]_vars

\* flush() calls writer.send() only when the connection is ready and no
\* drain is pending; a handler that starts with a drain pending sends
\* nothing unless it is the 'drain' handler, which clears the flag and
\* flushes once; and no handler sends again after a send that reported a
\* full buffer
Throttled ==
    LET last == harness.last IN
    /\ \A i \in 1..Len(last.sends) :
          /\ last.sends[i].ready /\ ~last.sends[i].mustDrain
          /\ last.sends[i].wait => i = Len(last.sends)
    /\ (last.pending /\ last.handler # "drain") => last.sends = <<>>
    /\ last.handler = "drain" =>
          /\ last.pending
          /\ Len(last.sends) = 1
          /\ client.mustDrain = last.sends[1].wait
    /\ (last.sends # <<>> /\ last.sends[Len(last.sends)].wait) => client.mustDrain
    /\ last.handler = "close" => ~client.ready

\* the statement of C19 as it stands: with the above, a 'data' handler
\* leaves the pending-drain flag as it found it
C19_DispatchKeepsDrainFlag ==
    /\ Throttled
    /\ harness.last.handler = "data" => client.mustDrain = harness.last.pending

\* C19: flush() calls writer.send() only when the connection is ready and
\* no drain is pending; once send() reports that the caller must wait, no
\* further send() happens until the 'drain' event, which clears the flag and
\* retries the flush once; dispatching inbound frames never clears the
\* pending-drain flag, and sets it only when the flush of the Ready-for-query
\* or of the Parameter description case called send() and was told to wait.
C19_Backpressure ==
    /\ Throttled
    /\ (harness.last.handler = "data" /\ client.mustDrain # harness.last.pending) =>
          /\ client.mustDrain
          /\ harness.last.sends # <<>>
          /\ harness.last.sends[Len(harness.last.sends)].wait

\* the flush of an inbound frame was told to wait: the 'data' handler set
\* the pending-drain flag
C19_Witness ==
    /\ harness.last.handler = "data"
    /\ ~harness.last.pending
    /\ client.mustDrain
    /\ harness.last.sends # <<>>
    /\ outgoing = <<>>


\* C20: a query answered by a row description and the Close frame, with no
\* row in between, has its stream ended with zero rows and its own field
\* names, and once its answer is processed neither its data handler nor its
\* row description is left in the registries.
C20_ZeroRowsComplete ==
    (NoArguments /\ IssuedKinds \subseteq {"empty"} /\ Quiescent) =>
        /\ client.dataHandlers = <<>>
        /\ client.rowDescriptions = <<>>
        /\ \A q \in 1..Len(results) :
              /\ Ended(q)
              /\ results[q].rows = <<>>
              /\ NamesDelivered(q) = FieldNames(Issued(q).text)


----------------------------------------------------------------------------
(* A fault inside a chunk: the server's stream holds a frame on which      *)
(* receive() throws, between two notices, and arrives in chunks that end   *)
(* where a frame ends or up to MaxSlice bytes into a frame.                *)
(* harness.stream is the stream fed.                                       *)

MaxSlice == 4

ThrowKinds == {"orphan", "undescribed", "malformed"}

\* the frame receive() throws on: a row nobody asked for, a row whose query
\* has no row description yet, an error without a message
ThrowFrame(kind) ==
    IF kind = "malformed"
    THEN Frame(MsgError, FieldsPayload(<<<<TagSeverity, <<69>>>>,
                                         <<TagCode, <<52, 50>>>>>>))
    ELSE RowDataFrame(RowColumns(FaultQuery.text, 1))

ThrowStream(kind) == NoticeFrame \o ThrowFrame(kind) \o NoticeFrame

\* the client when the stream starts: it has issued a query in the second
\* case
ThrowStart(kind) ==
    IF kind = "undescribed"
    THEN [execute([Greeted EXCEPT !.sockFull = FALSE], FaultQuery)
            EXCEPT !.outgoing = <<>>, !.sent = <<>>]
    ELSE Greeted

InitThrow ==
    /\ outgoing = <<>>
    /\ sent = <<>>
    /\ iterators = <<>>
    /\ log = <<>>
    /\ events = Greeted.events
    /\ fault = NoError
    /\ server = NewServer
    /\ \E kind \in ThrowKinds :
         /\ client = ThrowStart(kind).client
         /\ results = ThrowStart(kind).results
         /\ wire = ThrowStream(kind)
         /\ harness = [socket |-> "open", scenario |-> 0,
                       issued |-> IF kind = "undescribed"
                                  THEN <<FaultQuery>> ELSE <<>>,
                       received |-> 0, consumed |-> 0, responses |-> FALSE,
                       pipelined |-> TRUE, split |-> FALSE, midrow |-> FALSE,
                       grown |-> FALSE, stream |-> ThrowStream(kind),
                       kind |-> kind]

\* where the frames of a stream end
FrameEnds(kind) ==
    {Len(NoticeFrame), Len(NoticeFrame) + Len(ThrowFrame(kind)),
     Len(ThrowStream(kind))}

\* where a chunk may end
SliceEnds(kind) ==
    FrameEnds(kind) \cup
        {b + k : b \in {0} \cup FrameEnds(kind), k \in 1..MaxSlice}

\* the next chunk of the stream arrives
ThrowData ==
    \E n \in 1..Len(wire) :
        /\ harness.received + n \in SliceEnds(harness.kind)
        /\ Data(n, FALSE)

NextThrow == ThrowData

SpecThrow == InitThrow /\ [][NextThrow]_vars

\* the notices dispatched
Notices == Count(events, "notice") - Count(Greeted.events, "notice")

\* the bytes of the frames dispatched: every frame dispatched is a notice
DispatchedBytes == Notices * Len(NoticeFrame)

\* C21: when receive() throws partway through a chunk, offset and remaining
\* still describe the received bytes that were not dispatched, so that no
\* notice is dispatched twice and no byte received and not dispatched is
\* missing from the unread region.
C21_FaultKeepsReassembly ==
    harness.responses =>
        /\ client.offset + client.remaining <= Len(Get(client.buffer))
        /\ DispatchedBytes <= harness.received
        /\ Unread = SubSeq(harness.stream, DispatchedBytes + 1, harness.received)

=============================================================================
